---- MODULE Spec2Model ----
(***************************************************************************)
(* punchline: MIDI melody -> punch layout for a paper-strip music box.     *)
(*                                                                         *)
(* One run of punchline.main is modelled as a sequential state machine:    *)
(*   Melody.sounds (track loop, message loop, shift, sort)                 *)
(*   Staves.write_stats (best_transpose, staves_count, pages_count)        *)
(*   Staves.write (page loop, stave loop, sound loop).                     *)
(* Lengths in millimetres are integers here; every quotient time / speed   *)
(* is kept exact by comparing the two sides multiplied by speed, so the    *)
(* model is the program in exact arithmetic (floating point rounding is    *)
(* not modelled).  Python assert statements are modelled as enabled.       *)
(***************************************************************************)
EXTENDS Integers, Sequences, FiniteSets, TLC

VARIABLES
    cfg,            \* the parsed command line: fields of MusicBox, Melody, Staves
    midi,           \* MidiFile.tracks: a sequence of tracks, each a sequence of messages
    pc,             \* position of the run
    err,            \* "none", or the exception that ended the run
    exit_code,      \* -1 while running, 0 once main returned
    ti,             \* Melody.sounds: index i of the track loop (0-based)
    mi,             \* Melody.sounds: number of messages of the track already read
    time,           \* Melody.sounds: local time
    prev_time,      \* Melody.sounds: local prev_time
    sounds,         \* Melody.sounds: local list sounds, in extraction order, before the shift
    kept,           \* history: <<track, message index>> of each appended sound
    melody,         \* Melody.sounds: the cached result (shifted, sorted)
    note_data,      \* MusicBox.notes / _note_data once computed, <<>> before
    best_transpose, \* Melody.best_transpose once computed
    search,         \* which return of best_transpose was taken: "none", "octave", "full"
    staves_count,   \* Staves.staves_count once computed
    pages_count,    \* Staves.pages_count once computed
    page,           \* Staves.write: loop variable page
    stave,          \* Staves._write_page: loop variable stave
    offset,         \* the cursor into melody.sounds shared by all staves
    latest_notes,   \* Staves._write_stave: local dict latest_notes
    punches,        \* the svg.Circle elements emitted so far
    staves_written, \* number of _write_stave calls that began drawing
    pages_written   \* number of page files written

vars == <<cfg, midi, pc, err, exit_code, ti, mi, time, prev_time, sounds, kept,
          melody, note_data, best_transpose, search, staves_count, pages_count,
          page, stave, offset, latest_notes, punches, staves_written, pages_written>>

----------------------------------------------------------------------------
(* Arithmetic of the Python built-ins used by the program.                 *)

Min(a, b) == IF a <= b THEN a ELSE b

\* int(a / b) for b > 0: truncation toward zero.
TruncDiv(a, b) == IF a >= 0 THEN a \div b ELSE -((-a) \div b)

\* math.floor(a / b), b # 0.
FloorDiv(a, b) == IF b > 0 THEN a \div b ELSE (-a) \div (-b)

\* math.ceil(a / b), b # 0.
CeilDiv(a, b) == -FloorDiv(-a, b)

Range(s) == {s[i] : i \in 1..Len(s)}

Reverse(s) == [i \in 1..Len(s) |-> s[Len(s) + 1 - i]]

SeqsUpTo(S, n) == UNION {[1..k -> S] : k \in 0..n}

----------------------------------------------------------------------------
(* _music_box.py: Note                                                     *)

A0 == 21

NAMES == <<"A", "A#", "B", "C", "C#", "D", "D#", "E", "F", "F#", "G", "G#">>

\* '#' in letter
HasSharpSign(letter) == letter \in {"A#", "C#", "D#", "F#", "G#"}

NoteLetter(number) == NAMES[((number - A0) % 12) + 1]

NoteOctave(number) == TruncDiv(number, 12) - 2

IsSharp(number) == HasSharpSign(NoteLetter(number))

\* Note.name as the pair (letter, octave) that f"{letter}{octave}" prints.
NoteName(number) == [letter |-> NoteLetter(number), octave |-> NoteOctave(number)]

\* NAMES.index(letter), 0-based.
NamesIndex(letter) == (CHOOSE i \in 1..Len(NAMES) : NAMES[i] = letter) - 1

\* Note.from_name: the number computed from a name (letter, octave digit).
FromNameNumber(name) == name.octave * 12 + NamesIndex(name.letter) + A0

\* Note.from_name: the exception it raises, or "none".
FromNameError(name) ==
    IF name.letter \notin Range(NAMES) THEN "ValueError"
    ELSE IF NoteName(FromNameNumber(name)) # name THEN "AssertionError"
    ELSE "none"

----------------------------------------------------------------------------
(* _music_box.py: MusicBox                                                 *)

\* The while loop of MusicBox.notes: note_number is the last number tried.
RECURSIVE CollectNotes(_, _, _)
CollectNotes(c, note_number, acc) ==
    IF Len(acc) >= c.notes_count THEN acc
    ELSE LET n == note_number + 1 IN
         IF ~c.sharps /\ IsSharp(n)
         THEN CollectNotes(c, n, acc)
         ELSE CollectNotes(c, n, Append(acc, n))

\* Faulty variant of NoteData: the list is reversed when reverse is set.
NoteDataReversedWhenSet(c) ==
    LET collected == CollectNotes(c, FromNameNumber(c.first_note) - 1, <<>>) IN
    IF c.reverse THEN Reverse(collected) ELSE collected

\* MusicBox._note_data: the numbers of MusicBox.notes, by line position.
NoteData(c) ==
    LET collected == CollectNotes(c, FromNameNumber(c.first_note) - 1, <<>>) IN
    IF ~c.reverse THEN Reverse(collected) ELSE collected

contains_note(nd, note) == \E i \in 1..Len(nd) : nd[i] = note

\* tuple.index: the first position holding the note, 0-based.
get_note_pos(nd, note) ==
    (CHOOSE i \in 1..Len(nd) : nd[i] = note /\ \A j \in 1..(i - 1) : nd[j] # note) - 1

transpositions == <<0, -12, 12, -24, 24, -36, 36>>

\* The list guesses of guess_note_pos for one transposition.
Guesses(c, note, shifted) ==
    IF IsSharp(note) /\ ~c.sharps
    THEN IF c.prefer_up
         THEN <<shifted, shifted + 1, shifted - 1>>
         ELSE <<shifted, shifted - 1, shifted + 1>>
    ELSE <<shifted>>

\* The two nested loops of guess_note_pos from transposition t, guess g on:
\* the position of the first guess on the music box, or -1 when none is.
RECURSIVE FirstGuess(_, _, _, _, _)
FirstGuess(nd, c, note, t, g) ==
    IF t > Len(transpositions) THEN -1
    ELSE LET guesses == Guesses(c, note, note + transpositions[t]) IN
         IF g > Len(guesses) THEN FirstGuess(nd, c, note, t + 1, 1)
         ELSE IF contains_note(nd, guesses[g]) THEN get_note_pos(nd, guesses[g])
         ELSE FirstGuess(nd, c, note, t, g + 1)

SeqMin(s) == CHOOSE x \in Range(s) : \A y \in Range(s) : x <= y

SeqMax(s) == CHOOSE x \in Range(s) : \A y \in Range(s) : x >= y

\* Faulty variant of EdgePos: the edge is not inverted for a reversed music box.
EdgePosIgnoringReverse(nd, c, note) ==
    IF note < SeqMin(nd) THEN c.notes_count - 1 ELSE 0

\* The tail of guess_note_pos: the edge line for a note with no guess found.
EdgePos(nd, c, note) ==
    LET above == note < SeqMin(nd)
        above2 == IF c.reverse THEN ~above ELSE above
    IN IF above2 THEN c.notes_count - 1 ELSE 0

guess_note_pos(nd, c, note) ==
    LET found == FirstGuess(nd, c, note, 1, 1) IN
    IF found >= 0 THEN found ELSE EdgePos(nd, c, note)

\* MusicBox.width
BoxWidth(c) == (c.notes_count - 1) * c.pitch

----------------------------------------------------------------------------
(* _melody.py: Melody.sounds                                               *)

Track(i) == midi[i + 1]

\* Lines 109-114: the message is skipped.
Ignored(msg) == msg.is_meta \/ msg.type # "note_on" \/ msg.velocity = 0

\* Faulty variant of CutsTrack: a long pause never ends the track.
CutsTrackNever(diff) == FALSE

\* Line 117: the condition of the break.
CutsTrack(diff) == sounds # <<>> /\ diff > cfg.cut_pause

\* Faulty variant of KeptTime: the pause is not shortened.
KeptTimeUnclamped(prev, diff) == prev + diff

\* Line 119: the time given to a kept sound.
KeptTime(prev, diff) == prev + Min(cfg.max_pause, diff)

MinTime(s) == CHOOSE t \in {s[i].time : i \in 1..Len(s)} :
                  \A i \in 1..Len(s) : t <= s[i].time

MaxTime(s) == CHOOSE t \in {s[i].time : i \in 1..Len(s)} :
                  \A i \in 1..Len(s) : t >= s[i].time

\* Faulty variant of ShiftSounds: the earliest time is not subtracted.
ShiftSoundsByStartPause(s) ==
    [i \in 1..Len(s) |-> [s[i] EXCEPT !.time = @ + cfg.start_pause]]

\* Lines 127-130: fixed silence at the beginning.
ShiftSounds(s) ==
    IF s # <<>>
    THEN LET shift == cfg.start_pause - MinTime(s) IN
         [i \in 1..Len(s) |-> [s[i] EXCEPT !.time = @ + shift]]
    ELSE s

\* list.sort(key=time) is stable: x goes after every element whose time is <= its own.
RECURSIVE InsertByTime(_, _)
InsertByTime(sorted, x) ==
    IF sorted = <<>> THEN <<x>>
    ELSE IF sorted[Len(sorted)].time <= x.time THEN Append(sorted, x)
    ELSE Append(InsertByTime(SubSeq(sorted, 1, Len(sorted) - 1), x), sorted[Len(sorted)])

RECURSIVE SortByTime(_)
SortByTime(s) ==
    IF s = <<>> THEN <<>>
    ELSE InsertByTime(SortByTime(SubSeq(s, 1, Len(s) - 1)), s[Len(s)])

----------------------------------------------------------------------------
(* _melody.py: derived properties of Melody                                *)

\* Melody.notes_use: how many times each note appears.
notes_use(mel) ==
    [n \in {mel[i].note : i \in 1..Len(mel)} |->
        Cardinality({i \in 1..Len(mel) : mel[i].note = n})]

sounds_count(mel) == Len(mel)

RECURSIVE SumAvailable(_, _, _, _)
SumAvailable(nd, use, todo, trans) ==
    IF todo = {} THEN 0
    ELSE LET n == CHOOSE x \in todo : TRUE IN
         (IF contains_note(nd, n + trans) THEN use[n] ELSE 0)
         + SumAvailable(nd, use, todo \ {n}, trans)

count_available_sounds(nd, mel, trans) ==
    SumAvailable(nd, notes_use(mel), DOMAIN notes_use(mel), trans)

max_time(mel) == IF mel = <<>> THEN 0 ELSE MaxTime(mel)

\* range(lo, hi, step) for step > 0, as a sequence.
RangeSeq(lo, hi, step) ==
    IF hi <= lo THEN <<>>
    ELSE [k \in 1..CeilDiv(hi - lo, step) |-> lo + (k - 1) * step]

\* A Transposition: ratio is the fraction num / den.
Transposition(shift, num, den) == [shift |-> shift, num |-> num, den |-> den]

\* One iteration of the loop of _get_best_transpose, for the shift trans.
BestStep(nd, mel, trans, best) ==
    LET avail == count_available_sounds(nd, mel, trans) IN
    IF avail = sounds_count(mel)
    THEN Transposition(trans, 1, 1)
    ELSE IF avail * best.den > best.num * sounds_count(mel)
    THEN Transposition(trans, avail, sounds_count(mel))
    ELSE best

\* The loop of _get_best_transpose over elements lo..hi of seq, in order; a
\* ratio of 1 ends the loop.  The elements are taken in two halves so that
\* the evaluation stays shallow for a range of 200 shifts.
RECURSIVE BestFrom(_, _, _, _, _, _)
BestFrom(nd, mel, seq, lo, hi, best) ==
    IF lo > hi THEN best
    ELSE IF lo = hi THEN BestStep(nd, mel, seq[lo], best)
    ELSE LET mid == (lo + hi) \div 2
             left == BestFrom(nd, mel, seq, lo, mid, best)
         IN IF left.num = left.den THEN left
            ELSE BestFrom(nd, mel, seq, mid + 1, hi, left)

\* Faulty variant of get_best_transpose: the loop returns the first shift
\* that fits any sound.
RECURSIVE FirstFitFrom(_, _, _, _)
FirstFitFrom(nd, mel, seq, k) ==
    IF k > Len(seq) THEN Transposition(0, 0, 1)
    ELSE LET avail == count_available_sounds(nd, mel, seq[k]) IN
         IF avail > 0
         THEN Transposition(seq[k], avail, sounds_count(mel))
         ELSE FirstFitFrom(nd, mel, seq, k + 1)

get_best_transpose_first_fit(nd, mel, seq) ==
    IF mel = <<>> THEN Transposition(0, 1, 1)
    ELSE FirstFitFrom(nd, mel, seq, 1)

\* Faulty variant of get_best_transpose: no early return for an empty melody.
get_best_transpose_no_empty_case(nd, mel, seq) ==
    BestFrom(nd, mel, seq, 1, Len(seq), Transposition(0, 0, 1))

\* Melody._get_best_transpose
get_best_transpose(nd, mel, seq) ==
    IF mel = <<>> THEN Transposition(0, 1, 1)
    ELSE BestFrom(nd, mel, seq, 1, Len(seq), Transposition(0, 0, 1))

\* Line 168: int(transpose_lower / 12) * 12
LowerOctave(c) == TruncDiv(c.transpose_lower, 12) * 12

OctaveShifts(c) == RangeSeq(LowerOctave(c), c.transpose_upper, 12)

AllShifts(c) == RangeSeq(c.transpose_lower, c.transpose_upper, 1)

\* Faulty variant of RatioAtLeast90: half of the sounds is enough.
RatioAtLeast50(t) == 2 * t.num >= t.den

\* Line 174: best_transpose.ratio >= .90
RatioAtLeast90(t) == 10 * t.num >= 9 * t.den

\* Lines 174-177: neither early return is taken.
RunsFullSearch(c, octave) == ~RatioAtLeast90(octave) /\ c.transpose

\* Whether computing best_transpose evaluates MusicBox._note_data.
SearchUsesBox(c, mel) ==
    /\ mel # <<>>
    /\ \/ OctaveShifts(c) # <<>>
       \/ (c.transpose /\ AllShifts(c) # <<>>)

----------------------------------------------------------------------------
(* _staves.py: geometry of Staves                                          *)

stave_width(c) == BoxWidth(c) + c.padding_bottom + c.padding_top

stave_length(c) == c.page_width - c.margin * 2

\* Lines 164-166
StavesPerPageAsserts(c) ==
    /\ c.page_height > 0
    /\ stave_width(c) > 0
    /\ stave_width(c) < c.page_height

\* Line 167
staves_per_page(c) == FloorDiv(c.page_height - c.margin * 2, stave_width(c))

\* Lines 180-183 scaled by speed: total_length * speed.
TotalLengthScaled(c, mel) == max_time(mel) + c.speed * c.start_width

\* Lines 180-182, 173, 189-190
StavesCountAsserts(c, mel) ==
    /\ max_time(mel) >= 0
    /\ c.speed > 0
    /\ c.start_width >= 0
    /\ c.margin >= 0
    /\ TotalLengthScaled(c, mel) >= 0
    /\ stave_length(c) > 0

\* Line 191: math.ceil(total_length / stave_length)
StavesCount(c, mel) == CeilDiv(TotalLengthScaled(c, mel), c.speed * stave_length(c))

\* Faulty variant of PagesCountAsserts: only a division by zero is excluded.
PagesCountAssertsNonZero(c, sc) == sc >= 0 /\ staves_per_page(c) # 0

\* Lines 197-198
PagesCountAsserts(c, sc) == sc >= 0 /\ staves_per_page(c) >= 1

\* Line 199: math.ceil(staves_count / staves_per_page)
PagesCount(c, sc) == CeilDiv(sc, staves_per_page(c))

----------------------------------------------------------------------------
(* _staves.py: Staves._write_stave                                         *)

FontSizeNotes == 2

\* Lines 425-428: the assertions of _write_text.
WriteTextAsserts(c, x, y) == x > 0 /\ y > 0 /\ x < c.page_width /\ y < c.page_height

\* Line 251
LineOffset(c, st) == st * stave_width(c) + c.margin * 2

\* Lines 252-299: the assertions passed before the circles are drawn.
HeaderAsserts(c, st) ==
    /\ LineOffset(c, st) >= 0
    /\ c.write_captions =>
         /\ LineOffset(c, st) >= 1
         /\ LineOffset(c, st) - c.padding_top >= 0
         /\ WriteTextAsserts(c, c.margin * 2,
                             LineOffset(c, st) - c.padding_top + stave_width(c) - 1)
    /\ \A i \in 0..(c.notes_count - 1) :
         /\ i * c.pitch + LineOffset(c, st) >= 0
         /\ c.write_notes =>
              WriteTextAsserts(c, c.margin - 2,
                               i * c.pitch + LineOffset(c, st) + FontSizeNotes \div 2)

\* Line 302 scaled by speed: offset_time * speed.
OffsetTimeScaled(c, pg, st) ==
    c.speed * ((pg * staves_per_page(c) + st) * stave_length(c) - c.start_width)

\* Line 306 scaled by speed: sound_offset * speed.
SoundOffsetScaled(c, snd, pg, st) == snd.time - OffsetTimeScaled(c, pg, st)

\* Line 308 scaled by speed: sound_offset > stave_length.
BeyondStave(c, so) == so > c.speed * stave_length(c)

\* Lines 314-315
NoteNumberAsserts(note_number) == note_number > 0 /\ note_number < 1000

\* Lines 316-319
NotePos(nd, c, note_number) ==
    IF contains_note(nd, note_number)
    THEN get_note_pos(nd, note_number)
    ELSE guess_note_pos(nd, c, note_number)

\* Lines 326-332 scaled by speed: the punch is drawn as an outline.
TooClose(c, latest, note_pos, so) ==
    /\ note_pos \in DOMAIN latest
    /\ so - latest[note_pos] < c.min_distance * c.speed

\* Faulty variant of NextLatest: every punch becomes the reference of its line.
NextLatestAlways(latest, note_pos, so, close) ==
    [p \in DOMAIN latest \cup {note_pos} |-> IF p = note_pos THEN so ELSE latest[p]]

\* Lines 333-334: latest_notes after the punch.
NextLatest(latest, note_pos, so, close) ==
    IF close THEN latest
    ELSE [p \in DOMAIN latest \cup {note_pos} |-> IF p = note_pos THEN so ELSE latest[p]]

NoLatest == [p \in {} |-> 0]

\* Line 239: stop drawing staves when the last sound is written.
LastSoundWritten(off, mel) == off >= sounds_count(mel)

----------------------------------------------------------------------------
(* The run.                                                                *)

Raise(e) == pc' = "error" /\ err' = e

\* Melody.sounds, lines 101-106: the head of the track loop.
NextTrack ==
    /\ pc = "track"
    /\ IF ti >= Len(midi)
       THEN pc' = "finish" /\ UNCHANGED <<ti, mi, time, prev_time>>
       ELSE IF ti \notin cfg.tracks
       THEN pc' = "track" /\ ti' = ti + 1 /\ UNCHANGED <<mi, time, prev_time>>
       ELSE pc' = "message" /\ mi' = 0 /\ time' = 0 /\ prev_time' = 0 /\ UNCHANGED ti
    /\ UNCHANGED <<cfg, midi, err, exit_code, sounds, kept, melody, note_data,
                   best_transpose, search, staves_count, pages_count, page, stave,
                   offset, latest_notes, punches, staves_written, pages_written>>

\* Melody.sounds, lines 107-122: one message of the track.
ReadMessage ==
    /\ pc = "message"
    /\ mi < Len(Track(ti))
    /\ LET msg == Track(ti)[mi + 1]
           now == time + msg.time
           diff == now - prev_time
       IN IF Ignored(msg)
          THEN /\ time' = now /\ mi' = mi + 1
               /\ UNCHANGED <<pc, ti, prev_time, sounds, kept>>
          ELSE IF CutsTrack(diff)
          THEN /\ time' = now /\ pc' = "track" /\ ti' = ti + 1
               /\ UNCHANGED <<mi, prev_time, sounds, kept>>
          ELSE /\ time' = KeptTime(prev_time, diff)
               /\ prev_time' = KeptTime(prev_time, diff)
               /\ sounds' = Append(sounds, [note |-> msg.note,
                                            time |-> KeptTime(prev_time, diff),
                                            track |-> ti])
               /\ kept' = Append(kept, <<ti, mi>>)
               /\ mi' = mi + 1
               /\ UNCHANGED <<pc, ti>>
    /\ UNCHANGED <<cfg, midi, err, exit_code, melody, note_data,
                   best_transpose, search, staves_count, pages_count, page, stave,
                   offset, latest_notes, punches, staves_written, pages_written>>

\* Melody.sounds, lines 107, 123-124: the track has no more messages.
EndTrack ==
    /\ pc = "message"
    /\ mi >= Len(Track(ti))
    /\ pc' = "track"
    /\ ti' = ti + 1
    /\ UNCHANGED <<cfg, midi, err, exit_code, mi, time, prev_time, sounds, kept, melody,
                   note_data, best_transpose, search, staves_count, pages_count, page,
                   stave, offset, latest_notes, punches, staves_written, pages_written>>

\* Melody.sounds, lines 126-133: the shift, the sort, the cached result.
FinishSounds ==
    /\ pc = "finish"
    /\ melody' = SortByTime(ShiftSounds(sounds))
    /\ pc' = "stats"
    /\ UNCHANGED <<cfg, midi, err, exit_code, ti, mi, time, prev_time, sounds, kept,
                   note_data, best_transpose, search, staves_count, pages_count, page,
                   stave, offset, latest_notes, punches, staves_written, pages_written>>

\* Staves.write_stats, lines 216-222: the statistics of the melody, among
\* them Melody.best_transpose (lines 164-180).
BestTranspose ==
    /\ pc = "stats"
    /\ IF cfg.speed = 0
       THEN Raise("ZeroDivisionError") /\ UNCHANGED <<note_data, best_transpose, search>>
       ELSE IF SearchUsesBox(cfg, melody) /\ FromNameError(cfg.first_note) # "none"
       THEN Raise(FromNameError(cfg.first_note))
            /\ UNCHANGED <<note_data, best_transpose, search>>
       ELSE LET nd == IF SearchUsesBox(cfg, melody) THEN NoteData(cfg) ELSE <<>>
                octave == get_best_transpose(nd, melody, OctaveShifts(cfg))
            IN /\ note_data' = nd
               /\ IF RunsFullSearch(cfg, octave)
                  THEN /\ best_transpose' = get_best_transpose(nd, melody, AllShifts(cfg))
                       /\ search' = "full"
                  ELSE /\ best_transpose' = octave
                       /\ search' = "octave"
               /\ pc' = "geometry"
               /\ UNCHANGED err
    /\ UNCHANGED <<cfg, midi, exit_code, ti, mi, time, prev_time, sounds, kept, melody,
                   staves_count, pages_count, page, stave, offset, latest_notes,
                   punches, staves_written, pages_written>>

\* Staves.write_stats, lines 225-228: total_length, stave_length,
\* staves_count and pages_count with their assertions (lines 160-199).
ComputePages ==
    /\ pc = "geometry"
    /\ IF ~StavesCountAsserts(cfg, melody)
       THEN Raise("AssertionError") /\ UNCHANGED <<staves_count, pages_count>>
       ELSE IF ~StavesPerPageAsserts(cfg)
       THEN Raise("AssertionError")
            /\ staves_count' = StavesCount(cfg, melody)
            /\ UNCHANGED pages_count
       ELSE IF ~PagesCountAsserts(cfg, StavesCount(cfg, melody))
       THEN Raise("AssertionError")
            /\ staves_count' = StavesCount(cfg, melody)
            /\ UNCHANGED pages_count
       ELSE /\ staves_count' = StavesCount(cfg, melody)
            /\ pages_count' = PagesCount(cfg, StavesCount(cfg, melody))
            /\ pc' = "write"
            /\ UNCHANGED err
    /\ UNCHANGED <<cfg, midi, exit_code, ti, mi, time, prev_time, sounds, kept, melody,
                   note_data, best_transpose, search, page, stave, offset, latest_notes,
                   punches, staves_written, pages_written>>

\* Staves.write, lines 208-210: the output directory, the cursor, the page loop.
Write ==
    /\ pc = "write"
    /\ offset' = 0
    /\ page' = 0
    /\ pc' = "page"
    /\ UNCHANGED <<cfg, midi, err, exit_code, ti, mi, time, prev_time, sounds, kept,
                   melody, note_data, best_transpose, search, staves_count, pages_count,
                   stave, latest_notes, punches, staves_written, pages_written>>

\* Staves.write line 210 and _write_page lines 231-236: the next page begins.
StartPage ==
    /\ pc = "page"
    /\ page < pages_count
    /\ stave' = 0
    /\ pc' = "stave"
    /\ UNCHANGED <<cfg, midi, err, exit_code, ti, mi, time, prev_time, sounds, kept,
                   melody, note_data, best_transpose, search, staves_count, pages_count,
                   page, offset, latest_notes, punches, staves_written, pages_written>>

\* Staves.write line 210 exhausted, _cli.py line 26: main returns 0.
Return ==
    /\ pc = "page"
    /\ page >= pages_count
    /\ pc' = "done"
    /\ exit_code' = 0
    /\ UNCHANGED <<cfg, midi, err, ti, mi, time, prev_time, sounds, kept,
                   melody, note_data, best_transpose, search, staves_count, pages_count,
                   page, stave, offset, latest_notes, punches, staves_written,
                   pages_written>>

\* Staves._write_stave, lines 250-304: borders, caption, lines, an empty latest_notes.
WriteStave ==
    /\ pc = "stave"
    /\ IF ~HeaderAsserts(cfg, stave)
       THEN Raise("AssertionError")
            /\ UNCHANGED <<note_data, latest_notes, staves_written>>
       ELSE IF note_data = <<>> /\ FromNameError(cfg.first_note) # "none"
       THEN Raise(FromNameError(cfg.first_note))
            /\ UNCHANGED <<note_data, latest_notes, staves_written>>
       ELSE /\ note_data' = IF note_data = <<>> THEN NoteData(cfg) ELSE note_data
            /\ latest_notes' = NoLatest
            /\ staves_written' = staves_written + 1
            /\ pc' = "sound"
            /\ UNCHANGED err
    /\ UNCHANGED <<cfg, midi, exit_code, ti, mi, time, prev_time, sounds, kept, melody,
                   best_transpose, search, staves_count, pages_count, page, stave,
                   offset, punches, pages_written>>

\* Staves._write_stave, lines 305-344: one sound becomes a circle on this stave.
PlaceSound ==
    /\ pc = "sound"
    /\ offset < Len(melody)
    /\ LET sound == melody[offset + 1]
           so == SoundOffsetScaled(cfg, sound, page, stave)
           note_number == sound.note + best_transpose.shift
           note_pos == NotePos(note_data, cfg, note_number)
           close == TooClose(cfg, latest_notes, note_pos, so)
       IN /\ ~BeyondStave(cfg, so)
          /\ IF so < 0 \/ ~NoteNumberAsserts(note_number)
             THEN Raise("AssertionError")
                  /\ UNCHANGED <<offset, latest_notes, punches>>
             ELSE /\ latest_notes' = NextLatest(latest_notes, note_pos, so, close)
                  /\ punches' = Append(punches,
                        [page |-> page, stave |-> stave, sound |-> offset,
                         note |-> note_number, pos |-> note_pos, off |-> so,
                         exact |-> contains_note(note_data, note_number),
                         close |-> close])
                  /\ offset' = offset + 1
                  /\ UNCHANGED <<pc, err>>
    /\ UNCHANGED <<cfg, midi, exit_code, ti, mi, time, prev_time, sounds, kept, melody,
                   note_data, best_transpose, search, staves_count, pages_count, page,
                   stave, staves_written, pages_written>>

\* Staves._write_stave lines 305-309, 345-346 and _write_page lines 236-240:
\* the stave is finished; the next stave of the page, or the end of the page.
EndStave ==
    /\ pc = "sound"
    /\ IF offset >= Len(melody)
       THEN TRUE
       ELSE BeyondStave(cfg, SoundOffsetScaled(cfg, melody[offset + 1], page, stave))
    /\ IF LastSoundWritten(offset, melody) \/ stave + 1 >= staves_per_page(cfg)
       THEN pc' = "endpage" /\ UNCHANGED stave
       ELSE pc' = "stave" /\ stave' = stave + 1
    /\ UNCHANGED <<cfg, midi, err, exit_code, ti, mi, time, prev_time, sounds, kept,
                   melody, note_data, best_transpose, search, staves_count, pages_count,
                   page, offset, latest_notes, punches, staves_written, pages_written>>

\* Staves._write_page, lines 241-247: the page file is written.
EndPage ==
    /\ pc = "endpage"
    /\ pages_written' = pages_written + 1
    /\ page' = page + 1
    /\ pc' = "page"
    /\ UNCHANGED <<cfg, midi, err, exit_code, ti, mi, time, prev_time, sounds, kept,
                   melody, note_data, best_transpose, search, staves_count, pages_count,
                   stave, offset, latest_notes, punches, staves_written>>

Next ==
    \/ NextTrack
    \/ ReadMessage
    \/ EndTrack
    \/ FinishSounds
    \/ BestTranspose
    \/ ComputePages
    \/ Write
    \/ StartPage
    \/ Return
    \/ WriteStave
    \/ PlaceSound
    \/ EndStave
    \/ EndPage

----------------------------------------------------------------------------
(* Inputs: a MIDI file and a command line.                                 *)

MaxMsgs == 3
MaxSounds == 4
MaxRepeat == 9
MaxNotesCount == 3

NoteOn(delta, note) ==
    [time |-> delta, is_meta |-> FALSE, type |-> "note_on", note |-> note, velocity |-> 100]

NoteOnSilent(delta, note) ==
    [time |-> delta, is_meta |-> FALSE, type |-> "note_on", note |-> note, velocity |-> 0]

NoteOff(delta, note) ==
    [time |-> delta, is_meta |-> FALSE, type |-> "note_off", note |-> note, velocity |-> 64]

Meta(delta) ==
    [time |-> delta, is_meta |-> TRUE, type |-> "set_tempo", note |-> 0, velocity |-> 0]

NoteNamed(letter, octave) == [letter |-> letter, octave |-> octave]

\* A small sheet: two lines one millimetre apart, staves of 4 mm, one stave per page.
BaseCfg ==
    [sharps |-> FALSE, first_note |-> NoteNamed("C", 4), notes_count |-> 2,
     reverse |-> FALSE, pitch |-> 1, padding_top |-> 1, padding_bottom |-> 1,
     min_distance |-> 2, prefer_up |-> FALSE,
     transpose_lower |-> -13, transpose_upper |-> 13, transpose |-> TRUE,
     max_pause |-> 10, start_pause |-> 1, cut_pause |-> 50, tracks |-> 0..39,
     margin |-> 3, speed |-> 1, page_width |-> 10, page_height |-> 9,
     start_width |-> 1, write_captions |-> TRUE, write_notes |-> TRUE]

\* Pauses: two tracks of short and long pauses, three track selections.
FirstTrackMsgs == {NoteOn(1, 72), NoteOn(6, 74), NoteOff(3, 72), Meta(3)}

SecondTrackMsgs == {NoteOn(1, 72), NoteOn(6, 74), NoteOnSilent(3, 72)}

MelodyMidis ==
    {<<t>> : t \in SeqsUpTo(FirstTrackMsgs, MaxMsgs)}
    \cup {<<t, u>> : t \in SeqsUpTo(FirstTrackMsgs, MaxMsgs),
                     u \in SeqsUpTo(SecondTrackMsgs, MaxMsgs - 1)}

MelodyCfgs ==
    {[BaseCfg EXCEPT !.max_pause = 2, !.cut_pause = 5,
                     !.tracks = sel[1], !.start_pause = sel[2]] :
        sel \in {<<0..39, 2>>, <<{1}, 0>>, <<{7}, 2>>}}

\* Layout: one track of up to MaxSounds sounds on valid and invalid sheets.
LayoutMsgs == {NoteOn(0, 72), NoteOn(1, 72), NoteOn(3, 72), NoteOn(1, 74)}

LayoutMidis == {<<t>> : t \in SeqsUpTo(LayoutMsgs, MaxSounds)}

LayoutCfgs ==
    {[BaseCfg EXCEPT !.speed = sp, !.start_width = sw, !.start_pause = pause,
                     !.page_height = ph] :
        sp \in {1, 2}, sw \in {0, 1}, pause \in {0, 1}, ph \in {9, 12}}
    \cup {[BaseCfg EXCEPT !.page_height = ph] : ph \in {0, 3, 4, 8}}

\* Transposition: n sounds of one note, then m sounds of another.
Repeated(note, n) == [i \in 1..n |-> NoteOn(0, note)]

TransposeMidis ==
    {<<Repeated(ab[1], n) \o Repeated(ab[2], m)>> :
        ab \in {<<58, 60>>, <<60, 62>>, <<61, 73>>, <<60, 90>>, <<72, 60>>},
        n \in 0..MaxRepeat, m \in 0..MaxRepeat}

TransposeCfgs ==
    {[BaseCfg EXCEPT !.transpose_lower = r[1], !.transpose_upper = r[2],
                     !.transpose = tr] :
        r \in {<<-13, 13>>, <<-30, -5>>, <<5, 30>>, <<0, 1>>}, tr \in BOOLEAN}

\* Music box: one sound of any pitch on every kind of small music box.
BoxPitches == {1, 35, 36, 37, 47, 60, 61, 71, 73, 75, 77, 78, 79, 84, 85,
               109, 110, 111, 127}

BoxMidis == {<<>>} \cup {<<<<NoteOn(0, p)>>>> : p \in BoxPitches}

BoxCfgs ==
    {[BaseCfg EXCEPT !.sharps = sh, !.reverse = rv, !.prefer_up = up,
                     !.notes_count = n, !.first_note = fn,
                     !.transpose_lower = 0, !.transpose_upper = 1,
                     !.page_height = 12] :
        sh \in BOOLEAN, rv \in BOOLEAN, up \in BOOLEAN, n \in 1..MaxNotesCount,
        fn \in {NoteNamed("C", 4), NoteNamed("C#", 4), NoteNamed("E", 3),
                NoteNamed("A", 4), NoteNamed("H", 4)}}

\* The defaults of MusicBox, Melody and Staves (dataclass fields).
DefaultCfg ==
    [sharps |-> FALSE, first_note |-> NoteNamed("C", 4), notes_count |-> 15,
     reverse |-> FALSE, pitch |-> 2, padding_top |-> 6, padding_bottom |-> 7,
     min_distance |-> 8, prefer_up |-> FALSE,
     transpose_lower |-> -100, transpose_upper |-> 100, transpose |-> TRUE,
     max_pause |-> 2000, start_pause |-> 200, cut_pause |-> 50000, tracks |-> 0..39,
     margin |-> 5, speed |-> 67, page_width |-> 297, page_height |-> 210,
     start_width |-> 3, write_captions |-> TRUE, write_notes |-> TRUE]

\* One track, two note-on events at pitches 60 and 61, delta times 0 and 480.
ScenarioMidi == <<<<NoteOn(0, 60), NoteOn(480, 61)>>>>

\* The scenario and its neighbours: other second pitches and delta times,
\* with and without the full transposition search.
ScenarioMidis ==
    {<<<<NoteOn(0, 60), NoteOn(d, p)>>>> : d \in {0, 480, 3000}, p \in {61, 62, 63, 66}}

ScenarioCfgs == {[DefaultCfg EXCEPT !.transpose = tr] : tr \in BOOLEAN}

\* Note names: every letter of NAMES with every octave digit as the first note.
WellFormedNames == {NoteNamed(NAMES[l], o) : l \in 1..Len(NAMES), o \in 0..9}

NameMidis == {<<<<NoteOn(0, 60)>>>>}

NameCfgs ==
    {[BaseCfg EXCEPT !.first_note = fn, !.sharps = sh] :
        fn \in WellFormedNames, sh \in BOOLEAN}

\* Pitches: one or two sounds at the ends of the MIDI pitch range 0..127 and
\* an octave apart, with narrow and wide transposition ranges.
EdgePitches == {0, 1, 12, 84, 127}

PitchMidis ==
    {<<<<NoteOn(0, p)>>>> : p \in EdgePitches}
    \cup {<<<<NoteOn(0, p), NoteOn(1, q)>>>> : p \in EdgePitches, q \in EdgePitches}

PitchCfgs ==
    {[BaseCfg EXCEPT !.transpose_lower = r[1], !.transpose_upper = r[2],
                     !.transpose = tr, !.page_height = 12] :
        r \in {<<0, 1>>, <<-13, 13>>, <<-100, 100>>}, tr \in BOOLEAN}

InitRun ==
    /\ pc = "track"
    /\ err = "none"
    /\ exit_code = -1
    /\ ti = 0
    /\ mi = 0
    /\ time = 0
    /\ prev_time = 0
    /\ sounds = <<>>
    /\ kept = <<>>
    /\ melody = <<>>
    /\ note_data = <<>>
    /\ best_transpose = Transposition(0, 0, 1)
    /\ search = "none"
    /\ staves_count = 0
    /\ pages_count = 0
    /\ page = 0
    /\ stave = 0
    /\ offset = 0
    /\ latest_notes = NoLatest
    /\ punches = <<>>
    /\ staves_written = 0
    /\ pages_written = 0

InitMelody == InitRun /\ midi \in MelodyMidis /\ cfg \in MelodyCfgs

InitLayout == InitRun /\ midi \in LayoutMidis /\ cfg \in LayoutCfgs

InitTranspose == InitRun /\ midi \in TransposeMidis /\ cfg \in TransposeCfgs

InitBox == InitRun /\ midi \in BoxMidis /\ cfg \in BoxCfgs

InitNames == InitRun /\ midi \in NameMidis /\ cfg \in NameCfgs

InitPitch == InitRun /\ midi \in PitchMidis /\ cfg \in PitchCfgs

InitScenario == InitRun /\ midi \in ScenarioMidis /\ cfg \in ScenarioCfgs

Init ==
    \/ InitMelody \/ InitLayout \/ InitTranspose \/ InitBox
    \/ InitScenario \/ InitNames \/ InitPitch

Spec == Init /\ [][Next]_vars

SpecMelody == InitMelody /\ [][Next]_vars

SpecLayout == InitLayout /\ [][Next]_vars

SpecTranspose == InitTranspose /\ [][Next]_vars

SpecBox == InitBox /\ [][Next]_vars

SpecScenario == InitScenario /\ [][Next]_vars

SpecNames == InitNames /\ [][Next]_vars

SpecPitch == InitPitch /\ [][Next]_vars

----------------------------------------------------------------------------
(* Properties.                                                             *)

Extracting == pc \in {"track", "message", "finish"}

Selected == {i \in 0..(Len(midi) - 1) : i \in cfg.tracks}

\* The sounds of one track, in the order of the sequence s.
OfTrack(s, i) == LET FromTrack(x) == x.track = i IN SelectSeq(s, FromTrack)

\* The message indices of track i whose sounds were kept.
KeptOf(i) == {kept[k][2] : k \in {n \in 1..Len(kept) : kept[n][1] = i}}

SetMax(S) == CHOOSE x \in S : \A y \in S : x >= y

\* The sum of the delta times of messages a+1 .. b of track i (0-based indices).
RECURSIVE DeltaSum(_, _, _)
DeltaSum(i, a, b) == IF b <= a THEN 0 ELSE Track(i)[b + 1].time + DeltaSum(i, a, b - 1)

\* The number of sounds of the melody that shift s puts on the music box.
Playable(s) ==
    Cardinality({i \in 1..Len(melody) : contains_note(note_data, melody[i].note + s)})

----------------------------------------------------------------------------
\* C1: once write() has finished, every sound of the melody has been placed
\* as a punch exactly once and in melody order: the punches are as many as
\* the sounds and the k-th punch is the k-th sound.
C1_Coverage ==
    pc = "done" =>
        /\ Len(punches) = sounds_count(melody)
        /\ \A k \in 1..Len(punches) : punches[k].sound = k - 1

\* C1, the part that holds: coverage whenever the total length is positive.
C1_CoverageWhenNotEmptyLength ==
    (pc = "done" /\ TotalLengthScaled(cfg, melody) > 0) =>
        /\ Len(punches) = sounds_count(melody)
        /\ \A k \in 1..Len(punches) : punches[k].sound = k - 1

----------------------------------------------------------------------------
\* The earlier punches of the stave and line of punch k that are not flagged.
References(k) ==
    {j \in 1..(k - 1) : /\ punches[j].page = punches[k].page
                        /\ punches[j].stave = punches[k].stave
                        /\ punches[j].pos = punches[k].pos
                        /\ ~punches[j].close}

\* C2: within one stave a punch is flagged "too close" exactly when an
\* earlier non-flagged punch on its line exists and its offset minus the
\* offset of the most recent such punch is less than min_distance; flagged
\* punches are never the reference, and the first punch on a line is never
\* flagged.
C2_CollisionFlagging ==
    \A k \in 1..Len(punches) :
        punches[k].close <=>
            /\ References(k) # {}
            /\ punches[k].off - punches[SetMax(References(k))].off
                   < cfg.min_distance * cfg.speed

\* C2 witness: a flagged punch lies between an accepted punch and a later
\* punch that is accepted although it is within min_distance of the flagged one.
C2_Witness ==
    \E k \in 1..Len(punches) : \E j \in 1..(k - 1) :
        /\ j - 1 \in References(k)
        /\ punches[j].close
        /\ punches[j].pos = punches[k].pos
        /\ punches[j].stave = punches[k].stave /\ punches[j].page = punches[k].page
        /\ ~punches[k].close
        /\ punches[k].off - punches[j].off < cfg.min_distance * cfg.speed

----------------------------------------------------------------------------
\* The multiples of 12 inside the configured range.
OctaveAlignedInRange ==
    {s \in cfg.transpose_lower..(cfg.transpose_upper - 1) : s % 12 = 0}

\* The multiples of 12 from transpose_lower rounded toward zero up to transpose_upper.
OctaveAlignedTried ==
    {s \in (TruncDiv(cfg.transpose_lower, 12) * 12)..(cfg.transpose_upper - 1) : s % 12 = 0}

\* C3 as stated, read when best_transpose has just been computed: for a
\* non-empty melody, when the full-range search ran the
\* returned shift is at least as good as every octave-aligned shift in the
\* range; otherwise it is at least as good as every shift of the full range.
C3_AsStated ==
    (pc = "geometry" /\ melody # <<>>) =>
        IF search = "full"
        THEN \A s \in OctaveAlignedInRange :
                 Playable(best_transpose.shift) >= Playable(s)
        ELSE \A s \in cfg.transpose_lower..(cfg.transpose_upper - 1) :
                 Playable(best_transpose.shift) >= Playable(s)

\* C3 amended, read when best_transpose has just been computed: for a
\* non-empty melody, when the full-range search ran the
\* returned shift is at least as good as every integer shift of the range;
\* otherwise (the octave-aligned result is returned) it is at least as good
\* as every octave-aligned shift that was tried.
C3_Optimal ==
    (pc = "geometry" /\ melody # <<>>) =>
        IF search = "full"
        THEN \A s \in cfg.transpose_lower..(cfg.transpose_upper - 1) :
                 Playable(best_transpose.shift) >= Playable(s)
        ELSE \A s \in OctaveAlignedTried :
                 Playable(best_transpose.shift) >= Playable(s)

\* C3 witness: the octave-aligned result is returned with a ratio of at least
\* 0.90 and below 1, while another shift of the range fits more sounds.
C3_Witness ==
    /\ pc = "geometry"
    /\ search = "octave"
    /\ 10 * best_transpose.num >= 9 * best_transpose.den
    /\ cfg.transpose
    /\ melody # <<>>
    /\ best_transpose.num < best_transpose.den
    /\ \E s \in cfg.transpose_lower..(cfg.transpose_upper - 1) :
           Playable(s) > Playable(best_transpose.shift)

----------------------------------------------------------------------------
\* C4: for every selected track, two consecutive kept sounds of the track
\* are at most max_pause apart in the final melody.
C4_PauseClamp ==
    \A i \in Selected :
        \A k \in 1..(Len(OfTrack(melody, i)) - 1) :
            OfTrack(melody, i)[k + 1].time - OfTrack(melody, i)[k].time <= cfg.max_pause

\* C4 witness: two consecutive kept sounds of a track whose raw gap was
\* longer than max_pause are in the final melody.
C4_Witness ==
    /\ ~Extracting
    /\ \E i \in Selected : \E a, b \in KeptOf(i) :
           /\ a < b
           /\ \A m \in KeptOf(i) : ~(a < m /\ m < b)
           /\ DeltaSum(i, a, b) > cfg.max_pause
           /\ Len(OfTrack(melody, i)) >= 2

----------------------------------------------------------------------------
\* C5: for every selected track, if the sum of the delta times since the
\* last kept sound of the track up to a qualifying note-on exceeds cut_pause,
\* neither that note-on nor any later message of the track is kept, and the
\* sounds kept before are all in the melody.
C5_PauseCut ==
    /\ \A i \in Selected : \A j \in 0..(Len(Track(i)) - 1) :
           LET before == {k \in KeptOf(i) : k < j} IN
           (/\ ~Ignored(Track(i)[j + 1])
            /\ before # {}
            /\ DeltaSum(i, SetMax(before), j) > cfg.cut_pause)
           => \A m \in KeptOf(i) : m < j
    /\ ~Extracting =>
           \A i \in Selected : Len(OfTrack(melody, i)) = Cardinality(KeptOf(i))

\* C5 witness: a track was cut after a kept sound, a later note-on of the
\* track was dropped with it, and the sound before the gap is in the melody.
C5_Witness ==
    /\ ~Extracting
    /\ \E i \in Selected : \E j \in 0..(Len(Track(i)) - 2) :
           LET before == {k \in KeptOf(i) : k < j} IN
           /\ ~Ignored(Track(i)[j + 1])
           /\ ~Ignored(Track(i)[j + 2])
           /\ Track(i)[j + 2].time <= cfg.cut_pause
           /\ before # {}
           /\ DeltaSum(i, SetMax(before), j) > cfg.cut_pause
           /\ Len(OfTrack(melody, i)) >= 1

----------------------------------------------------------------------------
\* C6: for a non-empty melody the earliest time is start_pause, the sounds
\* are sorted by time, and every sound is the extracted sound moved by the
\* same amount (the sounds of each track keep their order).
C6_LeadingSilence ==
    (~Extracting /\ melody # <<>>) =>
        LET d == melody[1].time - MinTime(sounds) IN
        /\ MinTime(melody) = cfg.start_pause
        /\ \A k \in 1..(Len(melody) - 1) : melody[k].time <= melody[k + 1].time
        /\ Len(melody) = Len(sounds)
        /\ \A i \in Selected :
               /\ Len(OfTrack(melody, i)) = Len(OfTrack(sounds, i))
               /\ \A k \in 1..Len(OfTrack(sounds, i)) :
                      OfTrack(melody, i)[k] =
                          [OfTrack(sounds, i)[k] EXCEPT !.time = @ + d]

\* C6 witness: the sort interleaved two tracks and the shift was not zero.
C6_Witness ==
    /\ ~Extracting
    /\ melody # <<>>
    /\ MinTime(sounds) # cfg.start_pause
    /\ \E k \in 1..(Len(melody) - 1) : melody[k].track > melody[k + 1].track

----------------------------------------------------------------------------
\* Whether one of the guesses of guess_note_pos is on the music box.
HasCandidate(note) ==
    \E t \in {0, -12, 12, -24, 24, -36, 36} :
        \E d \in (IF IsSharp(note) /\ ~cfg.sharps THEN {-1, 0, 1} ELSE {0}) :
            note + t + d \in Range(note_data)

ProbePitches == {-40, -13, -1, 0, 128, 500}

\* C7: guess_note_pos returns a line index in 0..notes_count-1 for every
\* pitch (the pitches placed by the layout, and pitches outside 0..127 probed
\* while a stave is drawn); when no octave or semitone candidate is on the music box the
\* result is the line of the highest pitch for a pitch above the range and
\* the line of the lowest pitch for a pitch below it.
C7_GuessTotal ==
    /\ \A k \in 1..Len(punches) :
           ~punches[k].exact =>
               /\ punches[k].pos \in 0..(cfg.notes_count - 1)
               /\ ~HasCandidate(punches[k].note) =>
                      \/ /\ punches[k].note > SeqMax(note_data)
                         /\ note_data[punches[k].pos + 1] = SeqMax(note_data)
                      \/ /\ punches[k].note < SeqMin(note_data)
                         /\ note_data[punches[k].pos + 1] = SeqMin(note_data)
    /\ (pc = "sound" /\ note_data # <<>>) =>
           \A p \in ProbePitches :
               /\ guess_note_pos(note_data, cfg, p) \in 0..(cfg.notes_count - 1)
               /\ ~HasCandidate(p) =>
                      note_data[guess_note_pos(note_data, cfg, p) + 1] =
                          IF p > SeqMax(note_data) THEN SeqMax(note_data)
                          ELSE SeqMin(note_data)

\* C7 witness: a pitch above a reversed music box with no candidate was
\* placed on the edge line.
C7_Witness ==
    \E k \in 1..Len(punches) :
        /\ ~punches[k].exact
        /\ ~HasCandidate(punches[k].note)
        /\ cfg.reverse
        /\ cfg.notes_count >= 2
        /\ punches[k].note > SeqMax(note_data)

----------------------------------------------------------------------------
InvalidGeometry(c) ==
    \/ c.page_height <= 0
    \/ stave_width(c) >= c.page_height
    \/ FloorDiv(c.page_height - 2 * c.margin, stave_width(c)) < 1

\* C8: with page_height <= 0, or stave thickness >= page_height, or fewer
\* than one stave per page, the run never reaches write(): it emits no
\* stave, no punch and no page, and never returns 0.
C8_InvalidGeometryFailsFast ==
    InvalidGeometry(cfg) =>
        /\ pc \in {"track", "message", "finish", "stats", "geometry", "error"}
        /\ punches = <<>>
        /\ staves_written = 0
        /\ pages_written = 0
        /\ exit_code = -1

\* C8 witness: a run with sounds ended in an error on an invalid sheet.
C8_Witness ==
    /\ InvalidGeometry(cfg)
    /\ cfg.page_height > stave_width(cfg)
    /\ pc = "error"
    /\ err = "AssertionError"
    /\ melody # <<>>

----------------------------------------------------------------------------
\* C9 as stated: notes_count distinct pitches, strictly increasing with the
\* line position when not reversed, strictly decreasing when reversed.
C9_AsStated ==
    note_data # <<>> =>
        /\ Len(note_data) = cfg.notes_count
        /\ Cardinality(Range(note_data)) = cfg.notes_count
        /\ \A i \in 1..(Len(note_data) - 1) :
               IF cfg.reverse THEN note_data[i] > note_data[i + 1]
               ELSE note_data[i] < note_data[i + 1]

\* C9 amended: notes_count distinct pitches, strictly decreasing with the
\* line position when not reversed, strictly increasing when reversed.
C9_Ordering ==
    note_data # <<>> =>
        /\ Len(note_data) = cfg.notes_count
        /\ Cardinality(Range(note_data)) = cfg.notes_count
        /\ \A i \in 1..(Len(note_data) - 1) :
               IF cfg.reverse THEN note_data[i] < note_data[i + 1]
               ELSE note_data[i] > note_data[i + 1]

\* C9 witness: a music box of several lines without semitones, not reversed.
C9_Witness ==
    /\ Len(note_data) >= 3
    /\ ~cfg.reverse
    /\ ~cfg.sharps
    /\ note_data[1] - note_data[Len(note_data)] > Len(note_data) - 1

----------------------------------------------------------------------------
\* No selected track holds a note-on with nonzero velocity.
EmptySelection ==
    \A i \in Selected : \A m \in 1..Len(Track(i)) : Ignored(Track(i)[m])

\* The sheet and the first note satisfy the assertions made before the layout.
ValidConfig == ~InvalidGeometry(cfg) /\ FromNameError(cfg.first_note) = "none"

\* C10: with an empty selection the melody has no sounds and max_time 0,
\* best_transpose is (shift 0, ratio 1), no punch is placed and, on a valid
\* configuration, the run does not fail and returns 0.
C10_EmptySelection ==
    EmptySelection =>
        /\ sounds_count(melody) = 0
        /\ max_time(melody) = 0
        /\ sounds = <<>>
        /\ search # "none" => (best_transpose.shift = 0
                                /\ best_transpose.num = best_transpose.den)
        /\ punches = <<>>
        /\ ValidConfig => pc # "error"
        /\ pc = "done" => exit_code = 0

\* C10 witness: a run on tracks without any selected sound has returned.
C10_Witness ==
    /\ EmptySelection
    /\ Len(midi) >= 2
    /\ \E i \in 0..(Len(midi) - 1) : \E m \in 1..Len(Track(i)) : ~Ignored(Track(i)[m])
    /\ pc = "done"
    /\ pages_written = 1

----------------------------------------------------------------------------
\* C11 (as stated): in the scenario (defaults, pitches 60 and 61 at delta
\* times 0 and 480) the melody has two sounds at times 200 and 680 and the
\* punch of pitch 61 is a fallback placement, not an exact one.
InScenario == cfg = DefaultCfg /\ midi = ScenarioMidi

C11_AsStated ==
    (InScenario /\ pc = "done") =>
        /\ [i \in 1..Len(melody) |-> melody[i].time] = <<200, 680>>
        /\ [i \in 1..Len(melody) |-> melody[i].note] = <<60, 61>>
        /\ Len(punches) = 2
        /\ ~punches[2].exact

\* C11: in the scenario the melody has two sounds at times 200 and 680 with
\* pitches 60 and 61; the full search returns shift 16 with ratio 1, and both
\* sounds are placed exactly, on the lines of pitches 76 and 77.
C11_Scenario ==
    /\ (InScenario /\ ~Extracting /\ pc # "stats") =>
          /\ [i \in 1..Len(melody) |-> melody[i].time] = <<200, 680>>
          /\ [i \in 1..Len(melody) |-> melody[i].note] = <<60, 61>>
          /\ search = "full"
          /\ best_transpose = Transposition(16, 1, 1)
    /\ (InScenario /\ pc = "done") =>
          /\ Len(punches) = 2
          /\ \A k \in 1..2 :
                /\ punches[k].exact
                /\ punches[k].note = melody[k].note + 16
                /\ note_data[punches[k].pos + 1] = punches[k].note
                /\ ~punches[k].close

C11_Witness ==
    /\ InScenario
    /\ pc = "done"
    /\ exit_code = 0
    /\ Len(punches) = 2
    /\ punches[2].note = 77

----------------------------------------------------------------------------
\* The message loop of Melody.sounds (lines 104-122) on track i when it is the
\* only selected track, from message m on: the list sounds starts empty and
\* holds the sounds of this track only.
RECURSIVE SoundsAloneFrom(_, _, _, _, _)
SoundsAloneFrom(i, m, t, prev, acc) ==
    IF m >= Len(Track(i)) THEN acc
    ELSE LET msg == Track(i)[m + 1]
             now == t + msg.time
             diff == now - prev
         IN IF Ignored(msg) THEN SoundsAloneFrom(i, m + 1, now, prev, acc)
            ELSE IF acc # <<>> /\ diff > cfg.cut_pause THEN acc
            ELSE SoundsAloneFrom(i, m + 1, KeptTime(prev, diff), KeptTime(prev, diff),
                                 Append(acc, [note |-> msg.note,
                                              time |-> KeptTime(prev, diff),
                                              track |-> i]))

SoundsAlone(i) == SoundsAloneFrom(i, 0, 0, 0, <<>>)

\* C12: per-track independence.  When the extraction is over, the sounds
\* kept from every selected track (pitches and times before the shift) are
\* the sounds kept from that track when it is the only selected track.
C12_TrackIndependence ==
    pc = "finish" => \A i \in Selected : OfTrack(sounds, i) = SoundsAlone(i)

\* The messages of track i that are note-on events with a velocity (0-based).
NoteOnsOf(i) == {m \in 0..(Len(Track(i)) - 1) : ~Ignored(Track(i)[m + 1])}

\* The time of the first note-on of track i, counted from the track's beginning.
FirstNoteOnTime(i) ==
    LET first == CHOOSE m \in NoteOnsOf(i) : \A n \in NoteOnsOf(i) : m <= n
    IN DeltaSum(i, -1, first)

\* C12, the part that holds: a track yields the sounds it yields alone when no
\* earlier track contributed a sound, or when its first note-on comes within
\* cut_pause of the track's beginning.
C12_IndependentUnlessLateStart ==
    pc = "finish" =>
        \A i \in Selected :
            (\/ \A j \in Selected : j < i => OfTrack(sounds, j) = <<>>
             \/ NoteOnsOf(i) = {}
             \/ FirstNoteOnTime(i) <= cfg.cut_pause)
            => OfTrack(sounds, i) = SoundsAlone(i)

----------------------------------------------------------------------------
InRange(shift) == cfg.transpose_lower <= shift /\ shift < cfg.transpose_upper

\* C13: once best_transpose is computed for a melody with sounds, its shift
\* is in the configured range, every octave-aligned candidate tried is a
\* multiple of 12 in that range, and its ratio is the number of sounds the
\* shift puts on the music box divided by the number of sounds.
C13_ShiftInRange ==
    (pc = "geometry" /\ melody # <<>>) =>
        /\ InRange(best_transpose.shift)
        /\ \A k \in 1..Len(OctaveShifts(cfg)) :
              OctaveShifts(cfg)[k] % 12 = 0 /\ InRange(OctaveShifts(cfg)[k])
        /\ best_transpose.num * sounds_count(melody)
              = Playable(best_transpose.shift) * best_transpose.den

\* C13, the part that holds: the candidates are multiples of 12 below
\* transpose_upper; with transpose_lower <= 0 they are in the range, and a
\* result that fits some sound is then in the range; a result that fits some
\* sound always reports the ratio of its own shift.
C13_InRangeWhenFitting ==
    (pc = "geometry" /\ melody # <<>>) =>
        /\ \A k \in 1..Len(OctaveShifts(cfg)) :
              /\ OctaveShifts(cfg)[k] % 12 = 0
              /\ OctaveShifts(cfg)[k] < cfg.transpose_upper
              /\ cfg.transpose_lower <= 0 => InRange(OctaveShifts(cfg)[k])
        /\ best_transpose.num > 0 =>
              /\ cfg.transpose_lower <= 0 => InRange(best_transpose.shift)
              /\ best_transpose.num * sounds_count(melody)
                    = Playable(best_transpose.shift) * best_transpose.den
        /\ best_transpose.num = 0 => best_transpose.shift = 0

\* C13, its two failures apart (both are refuted under SpecTranspose): a
\* shift below a positive transpose_lower that fits some sound is never
\* returned; a shift reported with ratio 0 fits no sound.
C13_NoShiftBelowPositiveLower ==
    (pc = "geometry" /\ melody # <<>> /\ cfg.transpose_lower > 0) =>
        ~(best_transpose.shift < cfg.transpose_lower /\ best_transpose.num > 0)

C13_ZeroRatioFitsNothing ==
    (pc = "geometry" /\ melody # <<>> /\ best_transpose.num = 0) =>
        Playable(best_transpose.shift) = 0

----------------------------------------------------------------------------
\* The number, counted from 1 over all pages, of the stave a punch is on.
StaveNumber(p) == p.page * staves_per_page(cfg) + p.stave + 1

\* The punches of the last sound of the melody.
LastSoundPunches == {k \in 1..Len(punches) : punches[k].sound = Len(melody) - 1}

\* Every punch lies on its stave: 0 <= sound_offset <= stave_length.
PunchesOnStave ==
    \A k \in 1..Len(punches) :
        punches[k].off >= 0 /\ punches[k].off <= cfg.speed * stave_length(cfg)

EmissionStops ==
    /\ staves_written = staves_count
    /\ pages_written = pages_count
    /\ melody # <<>> =>
          /\ LastSoundPunches # {}
          /\ \A k \in LastSoundPunches : StaveNumber(punches[k]) = staves_count
          /\ \A k \in LastSoundPunches : staves_written = StaveNumber(punches[k])

\* C14: when write() has returned, it has emitted exactly staves_count
\* staves on exactly pages_count pages, the last sound of the melody is on
\* stave number staves_count, no stave was emitted after that one, and at
\* every moment each punch has an offset between 0 and stave_length.
C14_EmissionStops ==
    /\ PunchesOnStave
    /\ pc = "done" => EmissionStops

\* C14, the part that holds: the same for every melody of a positive total
\* length, and for a melody without sounds.
C14_EmissionStopsWhenNotEmptyLength ==
    /\ PunchesOnStave
    /\ (pc = "done" /\ (melody = <<>> \/ TotalLengthScaled(cfg, melody) > 0))
          => EmissionStops

----------------------------------------------------------------------------
\* The music box has parsed its first note: best_transpose has been computed
\* for a melody with sounds, or the run has ended.
FirstNoteParsed == ~Extracting /\ pc # "stats" /\ melody # <<>>

\* C15: note naming round trip.  For a well-formed first note (a letter of
\* NAMES and one octave digit) the name derived from the parsed number is the
\* name given, parsing raises nothing and the music box gets its notes; the
\* name A0 is parsed as number 21.
C15_NameRoundTrip ==
    (FirstNoteParsed /\ cfg.first_note \in WellFormedNames) =>
        /\ NoteName(FromNameNumber(cfg.first_note)) = cfg.first_note
        /\ FromNameError(cfg.first_note) = "none"
        /\ err = "none"
        /\ note_data # <<>>
        /\ cfg.first_note = NoteNamed("A", 0) => FromNameNumber(cfg.first_note) = A0

\* C15, the part that holds: the round trip for the letters C to G#, of every
\* octave digit; for the letters A, A# and B the derived octave is one less
\* than the digit given and from_name raises AssertionError.
C15_RoundTripFromC ==
    (FirstNoteParsed /\ cfg.first_note \in WellFormedNames) =>
        IF cfg.first_note.letter \in {"A", "A#", "B"}
        THEN /\ NoteName(FromNameNumber(cfg.first_note))
                  = NoteNamed(cfg.first_note.letter, cfg.first_note.octave - 1)
             /\ pc = "error" /\ err = "AssertionError"
             /\ note_data = <<>>
        ELSE /\ NoteName(FromNameNumber(cfg.first_note)) = cfg.first_note
             /\ err = "none"
             /\ note_data # <<>>
             /\ (cfg.sharps \/ ~IsSharp(FromNameNumber(cfg.first_note)))
                  => FromNameNumber(cfg.first_note) \in Range(note_data)

----------------------------------------------------------------------------
\* The time of the sound a punch was made for.
PunchTime(k) == melody[punches[k].sound + 1].time

\* The earlier non-flagged punches on the line of punch k, on any stave.
ReferencesOnStrip(k) ==
    {j \in 1..(k - 1) : punches[j].pos = punches[k].pos /\ ~punches[j].close}

\* C16: collision detection across a stave boundary.  A punch whose sound
\* comes less than min_distance (time difference divided by speed) after the
\* most recent non-flagged punch on its line is flagged "too close", on
\* whichever stave that earlier punch was placed.
C16_CollisionAcrossStaves ==
    \A k \in 1..Len(punches) :
        (/\ ReferencesOnStrip(k) # {}
         /\ PunchTime(k) - PunchTime(SetMax(ReferencesOnStrip(k)))
               < cfg.min_distance * cfg.speed)
        => punches[k].close

\* C16, what the code does: latest_notes starts empty on every stave, so the
\* first punch on a line of a stave is never flagged, whatever precedes it on
\* the previous stave.
C16_FirstOnStaveNeverFlagged ==
    \A k \in 1..Len(punches) : References(k) = {} => ~punches[k].close

----------------------------------------------------------------------------
ValidPitches == \A i \in 1..Len(melody) : melody[i].note \in 0..127

\* The sound loop of _write_stave has reached a sound of the current stave.
SoundReached ==
    /\ pc = "sound"
    /\ offset < Len(melody)
    /\ ~BeyondStave(cfg, SoundOffsetScaled(cfg, melody[offset + 1], page, stave))

\* The run was ended by an assertion after a stave had been begun.
AbortedInLayout == pc = "error" /\ err = "AssertionError" /\ staves_written > 0

\* C17: for a melody of valid MIDI pitches, every sound the layout reaches
\* has 0 < pitch + best_transpose.shift < 1000, and the run is never ended
\* by an assertion in the middle of the layout.
C17_PitchAsserts ==
    ValidPitches =>
        /\ SoundReached =>
              NoteNumberAsserts(melody[offset + 1].note + best_transpose.shift)
        /\ ~AbortedInLayout

\* C17, the part that holds: the transposed pitch of a reached sound is
\* below 1000, and it is above 0 whenever the pitch is above -shift; the run
\* is ended in the layout only by a sound whose transposed pitch is <= 0.
C17_UpperBoundOnly ==
    ValidPitches =>
        /\ SoundReached =>
              /\ melody[offset + 1].note + best_transpose.shift < 1000
              /\ melody[offset + 1].note > -best_transpose.shift
                    => NoteNumberAsserts(melody[offset + 1].note + best_transpose.shift)
        /\ AbortedInLayout =>
              /\ offset < Len(melody)
              /\ melody[offset + 1].note + best_transpose.shift <= 0

====
